---- MODULE Spec2Model ----
(***************************************************************************)
(* Model of package ops (src/ops.go): operation handles with a latched     *)
(* failure over a hierarchical context store, and a process-wide registry  *)
(* of reporters guarded by a sync.RWMutex.                                  *)
(*                                                                         *)
(* The context store (github.com/getlantern/context) is an imported        *)
(* package; the operators named ctx... model the capability contract that  *)
(* ops.go consumes from it (Enter, Put, PutIfAbsent, PutDynamic, AsMap,     *)
(* Exit).  Everything else is a translation of ops.go.                      *)
(*                                                                         *)
(* Every goroutine is a member of Threads.  The goroutines in Workers run   *)
(* operations; every goroutine may register reporters.  A handle is used    *)
(* only by the goroutine that obtained it and only until its Exit is        *)
(* called: ops.go has no synchronisation on op.failure, and use after Exit  *)
(* is outside the package's contract.  A handle whose scope is "no scope"   *)
(* (the one Exit returns for a root) is not used further.                   *)
(*                                                                         *)
(* hist and commits record what happened (who obtained each handle, the    *)
(* calls made on it, what its Exit reported, the order in which             *)
(* registrations committed).  Actions read them only to decide which        *)
(* goroutine may still use a handle and to bound the run.                   *)
(***************************************************************************)
EXTENDS Integers, Sequences, FiniteSets, TLC

\* ---------------------------------------------------------------- bounds
MaxScopes == 2
MaxReporters == 2
FewReporters == 1
MaxFailCalls == 2
MaxPuts == 1
MaxGo == 1

\* ------------------------------------------------------------ value sets
Threads == {"t1", "t2"}
Workers == {"t1"}
Names == {"A", "B"}
Errors == {"e1", "e2"}
Nil == "nil"
FnName == "X"
Observers == {"O1", "O2"}
PutValues == {"v1", "v2"}
Keys == {"op", "root_op", "k", "t"}
Absent == "absent"
Dyn == "dyn"
NoThread == "none"

VARIABLES
    reporters,      \* ops.go:15  the registry, a sequence of reporters
    rwWriter,       \* ops.go:16  reportersMutex: the goroutine holding Lock
    rwReaders,      \* ops.go:16  reportersMutex: the goroutines holding RLock
    ops,            \* ops.go:48  the op structs allocated so far: [ctx, failure]
    scopes,         \* the context store: [parent, data] per scope, 0 = no scope
    counter,        \* the state of the caller's counting valueFN (PutDynamic)
    pc,             \* where each goroutine stands
    self,           \* the receiver of the Exit a goroutine is running
    reportersCopy,  \* ops.go:80  Exit's local reportersCopy
    ctxMap,         \* ops.go:89  Exit's local ctx
    idx,            \* ops.go:90  position of Exit's range loop
    regArg,         \* ops.go:54  RegisterReporter's argument
    hist,           \* per handle: what was called on it and what it reported
    commits,        \* the reporters in the order their registrations committed
    cur,            \* the context store's current scope of each goroutine
    regReturned,    \* the RegisterReporter calls that have returned
    fnErr,          \* the error held by the fn a spawned goroutine runs
    spawns,         \* the Go calls made: handle, scope, goroutine
    profile         \* the workload a run is bounded to

vars == <<reporters, rwWriter, rwReaders, ops, scopes, counter, pc, self,
          reportersCopy, ctxMap, idx, regArg, hist, commits, cur,
          regReturned, fnErr, spawns, profile>>

\* A run is bounded to one workload: failure latching, metadata, the
\* registry, one scope reported to several reporters, or a goroutine started
\* with Go; the operations are the same in each, only the budgets differ.
Profiles == {"latch", "meta", "registry", "report", "spawn"}

GoBudget == IF profile = "spawn" THEN MaxGo ELSE 0

ScopeBudget == IF profile = "report" THEN MaxScopes - 1 ELSE MaxScopes

NameChoices == IF profile \in {"latch", "spawn"} THEN {"A"} ELSE Names

FailBudget ==
    IF profile = "latch" THEN MaxFailCalls
    ELSE IF profile \in {"report", "spawn"} THEN MaxFailCalls - 1 ELSE 0

PutBudget == IF profile \in {"meta", "report", "spawn"} THEN MaxPuts ELSE 0

\* Reporters may panic in the workload with several reporters.
CanFault == profile = "report"

ReporterBudget ==
    IF profile \in {"registry", "report"} THEN MaxReporters ELSE FewReporters

\* --------------------------------------------------------- context store
EmptyData == [k \in Keys |-> Absent]

EmptyMap == [k \in Keys \cup {"failure"} |-> Absent]

\* enterScope(parent): a new scope below parent (0: a new root).
ctxEnter(sc, parent) == Append(sc, [parent |-> parent, data |-> EmptyData])

\* put(scope, key, value): attach or overwrite at that level.
ctxPut(sc, s, key, value) == [sc EXCEPT ![s].data[key] = value]

\* The tags of scope s and its ancestors, a deeper level overriding.
RECURSIVE ctxMerged(_, _)
ctxMerged(sc, s) ==
    IF s = 0 THEN EmptyData
    ELSE LET up == ctxMerged(sc, sc[s].parent)
         IN  [k \in Keys |-> IF sc[s].data[k] # Absent THEN sc[s].data[k] ELSE up[k]]

\* putIfAbsent(scope, key, value): attach unless the chain already has key.
ctxPutIfAbsent(sc, s, key, value) ==
    IF ctxMerged(sc, s)[key] # Absent THEN sc ELSE ctxPut(sc, s, key, value)

\* putDynamic(scope, key, fn): attach a tag computed at each flatten.
ctxPutDynamic(sc, s, key) == [sc EXCEPT ![s].data[key] = Dyn]

\* How many value functions a flatten of scope s calls.
ctxDynCount(sc, s) == Cardinality({k \in Keys : ctxMerged(sc, s)[k] = Dyn})

\* flatten(scope, failure, TRUE): the merged tags, each dynamic tag replaced
\* by what its value function returns now, plus the failure.  The value
\* function attached by PutDynamic counts its calls and returns the count.
ctxAsMap(sc, s, failure, cnt) ==
    LET m == ctxMerged(sc, s)
    IN  [k \in Keys \cup {"failure"} |->
            IF k = "failure" THEN (IF failure = Nil THEN Absent ELSE failure)
            ELSE IF m[k] = Dyn THEN ToString(cnt + 1)
            ELSE m[k]]

\* exitScope(scope): the parent scope, which becomes the current scope of
\* the calling goroutine.
ctxExit(sc, s) == sc[s].parent

\* Variant of EnterParent: the free function always starts a new root.
EnterParent_Root(t) == 0

\* context.Enter(): the free function enters below the current scope of the
\* calling goroutine (0: it has none, and the new scope is a root).
EnterParent(t) == cur[t]

\* context.Go(fn): fn's goroutine starts below the current scope of the
\* calling goroutine.
StaticGoAmbient(t) == cur[t]

\* ------------------------------------------------------------- op struct
\* Variant of GoAmbient: fn is started as a plain goroutine, with no scope.
GoAmbient_None(o) == 0

\* op.Go: o.ctx.Go(fn), fn's goroutine starts below the scope of the op.
GoAmbient(o) == o.ctx

\* Enter, op.Enter: &op{ctx: ...}
NewOp(s) == [ctx |-> s, failure |-> Nil]

\* Variant of ChildOp: the child starts with its parent's failure.
ChildOp_Inherit(o, s) == [ctx |-> s, failure |-> o.failure]

\* op.Enter: &op{ctx: ...}, the child of o
ChildOp(o, s) == [ctx |-> s, failure |-> Nil]

\* Variant of RegistryAppend: the new reporter takes the place of the last one.
RegistryAppend_Overwrite(rs, r) ==
    IF rs = <<>> THEN <<r>> ELSE [rs EXCEPT ![Len(rs)] = r]

\* RegisterReporter: append(reporters, reporter)
RegistryAppend(rs, r) == Append(rs, r)

\* Variant of OpPutDynamic: valueFN is called when the tag is attached and
\* its result stored.
OpPutDynamic_EvalAtAttach(sc, s, cnt) ==
    [sc |-> ctxPut(sc, s, "t", ToString(cnt + 1)), cnt |-> cnt + 1]

\* op.PutDynamic: o.ctx.PutDynamic(key, valueFN); the store and the value
\* function's counter afterwards.
OpPutDynamic(sc, s, cnt) == [sc |-> ctxPutDynamic(sc, s, "t"), cnt |-> cnt]

\* Variant of EnterTags: root_op is written with Put.
EnterTags_PutRoot(sc, s, name) ==
    ctxPut(ctxPut(sc, s, "op", name), s, "root_op", name)

\* The tags Enter and op.Enter write into the new scope.
EnterTags(sc, s, name) == ctxPutIfAbsent(ctxPut(sc, s, "op", name), s, "root_op", name)

\* Variant of FailOnErrorOp: the first error is kept.
FailOnErrorOp_FirstWins(o, err) ==
    IF err # Nil /\ o.failure = Nil THEN [o EXCEPT !.failure = err] ELSE o

\* Variant of FailOnErrorOp: the nil check is missing.
FailOnErrorOp_NoNilCheck(o, err) == [o EXCEPT !.failure = err]

\* op.FailOnError: the receiver afterwards.
FailOnErrorOp(o, err) == IF err # Nil THEN [o EXCEPT !.failure = err] ELSE o

\* op.FailOnError: the value returned.
FailOnErrorRet(o, err) == err

\* s without its repeated elements, first occurrences kept.
RECURSIVE Dedup(_)
Dedup(s) ==
    IF s = <<>> THEN <<>>
    ELSE LET front == Dedup(SubSeq(s, 1, Len(s) - 1))
             last == s[Len(s)]
         IN  IF \E j \in 1..Len(front) : front[j] = last THEN front
             ELSE Append(front, last)

\* Variant of SnapshotCopy: a reporter registered twice is copied once.
SnapshotCopy_Dedup(rs) == Dedup(rs)

\* op.Exit: the copy made under the read lock.
SnapshotCopy(rs) == IF Len(rs) > 0 THEN rs ELSE <<>>

\* Variant of ShouldReport: the metadata is flattened on every Exit.
ShouldReport_Always(copy) == TRUE

\* op.Exit: the condition guarding flatten and the loop.
ShouldReport(copy) == Len(copy) > 0

\* Variant of RangeOver: the loop reads the registry, not the copy.
RangeOver_Live(t) == reporters

\* Variant of RangeOver: the loop walks the copy from its end.
RangeOver_Reversed(t) ==
    [i \in 1..Len(reportersCopy[t]) |->
        reportersCopy[t][Len(reportersCopy[t]) + 1 - i]]

\* op.Exit: the sequence the range loop walks.
RangeOver(t) == reportersCopy[t]

\* Variant of ExitOp: the op returned carries the exiting op's failure.
ExitOp_Propagate(o) == [ctx |-> ctxExit(scopes, o.ctx), failure |-> o.failure]

\* op.Exit: the op returned.
ExitOp(o) == [ctx |-> ctxExit(scopes, o.ctx), failure |-> Nil]

\* Variant of FlattenScope: the scope is popped before it is flattened.
FlattenScope_Parent(o) == ctxExit(scopes, o.ctx)

\* op.Exit: the scope whose chain AsMap flattens, o.ctx.
FlattenScope(o) == o.ctx

\* Variant of InvokeCtx: AsMap is called again for every reporter.
InvokeCtx_Reflatten(t) ==
    ctxAsMap(scopes, FlattenScope(ops[self[t]]), ops[self[t]].failure, counter)

\* op.Exit: the map handed to a reporter, the local ctx.
InvokeCtx(t) == ctxMap[t]

\* Variant of FailOnErrorAll: the failure is also latched on the ops that
\* wrap the parent scope.
FailOnErrorAll_AlsoParent(os, h, err) ==
    [g \in 1..Len(os) |->
        IF g = h \/ (os[h].ctx # 0 /\ os[g].ctx # 0 /\ os[g].ctx = scopes[os[h].ctx].parent)
        THEN FailOnErrorOp(os[g], err) ELSE os[g]]

\* Variant of FailOnErrorAll: the failure is latched on the scope, that is on
\* every op that wraps the scope of op h.
FailOnErrorAll_OnScope(os, h, err) ==
    [g \in 1..Len(os) |->
        IF os[g].ctx = os[h].ctx THEN FailOnErrorOp(os[g], err) ELSE os[g]]

\* op.FailOnError: the op structs after o.failure = err on op h alone.
FailOnErrorAll(os, h, err) == [os EXCEPT ![h] = FailOnErrorOp(os[h], err)]

\* op.Put, op.PutDynamic: return o.
PutRet(h) == h

\* Variant of CanLock: the writer does not wait for the readers.
CanLock_IgnoreReaders(w, rs) == w = NoThread

\* reportersMutex.Lock() is granted: no writer and no reader holds the mutex.
CanLock(w, rs) == w = NoThread /\ rs = {}

\* reportersMutex.RLock() is granted: no writer holds the mutex.
CanRLock(w, rs) == w = NoThread

\* Variant of AfterRUnlock: the read lock is kept for the rest of Exit.
AfterRUnlock_Kept(rs, t) == rs

\* reportersMutex.RUnlock(): goroutine t no longer holds the read lock.
AfterRUnlock(rs, t) == rs \ {t}

\* op.Exit: where the range loop goes after reporter i of n has returned.
AfterReturn(i, n) == IF i + 1 <= n THEN "invoke" ELSE "pop"

\* Variant of AfterPanic: Exit recovers from the panic and goes on.
AfterPanic_Recovered(i, n) == AfterReturn(i, n)

\* op.Exit: a panic in reporter i is not recovered, it unwinds Exit.
AfterPanic(i, n) == "panicked"

\* ----------------------------------------------------------------- ghost
NewHist(t, kind, from, name) ==
    [owner |-> t, kind |-> kind, from |-> from, name |-> name, exited |-> FALSE,
     calls |-> <<>>, snapLen |-> -1, flats |-> 0, evals |-> 0, reps |-> <<>>,
     ret |-> 0, lenAtRet |-> -1,
     trace |-> <<>>, flat |-> EmptyMap, flatFailure |-> Nil, own |-> EmptyData,
     putRets |-> {}, fault |-> 0, obsRegs |-> 0, amb |-> 0, late |-> FALSE,
     inh |-> EmptyData]

Handles == 1..Len(ops)

ExitPcs == {"rlocked", "copied", "unlocked", "invoke", "reporting", "pop"}

InExit == {t \in Threads : pc[t] \in ExitPcs}

InRegister == {t \in Threads : pc[t] \in {"reg_locked", "reg_appended"}}

\* A handle goroutine t may call methods on.
Usable(t, h) ==
    /\ t \in Workers
    /\ h \in Handles
    /\ hist[h].owner = t
    /\ ~hist[h].exited
    /\ ops[h].ctx # 0

\* The handle the fn of spawned goroutine t has entered and not yet exited.
FnHandles(t) ==
    {h \in Handles : hist[h].owner = t /\ hist[h].kind = "enter" /\ ~hist[h].exited}

\* Goroutines started by Go whose fn has not entered its scope yet.
Pending == {t \in Threads : pc[t] = "fn_start"}

ScopesLeft == Len(scopes) + Cardinality(Pending) < ScopeBudget

\* The Go call that started goroutine t, 0 if none did.
SpawnOf(t) ==
    IF \E k \in 1..Len(spawns) : spawns[k].thread = t
    THEN CHOOSE k \in 1..Len(spawns) : spawns[k].thread = t
    ELSE 0

RECURSIVE CallsUpTo(_)
CallsUpTo(n) ==
    IF n = 0 THEN 0
    ELSE (IF hist[n].owner \in Workers THEN Len(hist[n].calls) ELSE 0) + CallsUpTo(n - 1)

TotalFailCalls == CallsUpTo(Len(hist))

RECURSIVE PutsUpTo(_)
PutsUpTo(n) ==
    IF n = 0 THEN 0
    ELSE Cardinality({k \in {"k", "t"} : scopes[n].data[k] # Absent}) + PutsUpTo(n - 1)

TotalPuts == PutsUpTo(Len(scopes))

\* ------------------------------------------------------------------ Init
Init ==
    /\ reporters = <<>>
    /\ rwWriter = NoThread
    /\ rwReaders = {}
    /\ ops = <<>>
    /\ scopes = <<>>
    /\ counter = 0
    /\ pc = [t \in Threads |-> "idle"]
    /\ self = [t \in Threads |-> 0]
    /\ reportersCopy = [t \in Threads |-> <<>>]
    /\ ctxMap = [t \in Threads |-> EmptyMap]
    /\ idx = [t \in Threads |-> 0]
    /\ regArg = [t \in Threads |-> "none"]
    /\ hist = <<>>
    /\ commits = <<>>
    /\ cur = [t \in Threads |-> 0]
    /\ regReturned = 0
    /\ fnErr = [t \in Threads |-> "none"]
    /\ spawns = <<>>
    /\ profile \in Profiles

\* --------------------------------------------------------------- actions
\* RegisterReporter, ops.go:55: reportersMutex.Lock().  The caller is a
\* goroutine outside any Exit, or a reporter that an Exit is running.
RegisterLock(t, r) ==
    /\ pc[t] \in {"idle", "reporting"}
    /\ Len(commits) + Cardinality(InRegister) < ReporterBudget
    /\ CanLock(rwWriter, rwReaders)
    /\ rwWriter' = t
    /\ regArg' = [regArg EXCEPT ![t] = r]
    /\ pc' = [pc EXCEPT ![t] = "reg_locked"]
    /\ UNCHANGED <<reporters, rwReaders, ops, scopes, counter, self,
                   reportersCopy, ctxMap, idx, hist, commits, cur, regReturned, fnErr, spawns, profile>>

\* RegisterReporter, ops.go:56: reporters = append(reporters, reporter)
RegisterAppend(t) ==
    /\ pc[t] = "reg_locked"
    /\ reporters' = RegistryAppend(reporters, regArg[t])
    /\ commits' = Append(commits, regArg[t])
    /\ pc' = [pc EXCEPT ![t] = "reg_appended"]
    /\ UNCHANGED <<rwWriter, rwReaders, ops, scopes, counter, self,
                   reportersCopy, ctxMap, idx, regArg, hist, cur, regReturned, fnErr, spawns, profile>>

\* RegisterReporter, ops.go:57: reportersMutex.Unlock()
RegisterUnlock(t) ==
    /\ pc[t] = "reg_appended"
    /\ rwWriter' = NoThread
    /\ regArg' = [regArg EXCEPT ![t] = "none"]
    /\ regReturned' = regReturned + 1
    /\ pc' = [pc EXCEPT ![t] = IF self[t] # 0 THEN "reporting" ELSE "idle"]
    /\ hist' = IF self[t] # 0 THEN [hist EXCEPT ![self[t]].obsRegs = @ + 1] ELSE hist
    /\ UNCHANGED <<reporters, rwReaders, ops, scopes, counter, self,
                   reportersCopy, ctxMap, idx, commits, cur, fnErr, spawns, profile>>

\* Enter, ops.go:62-64.  The caller is a goroutine of the program or the fn
\* of a goroutine started by Go, which enters FnName.
Enter(t, name) ==
    /\ \/ pc[t] = "idle" /\ t \in Workers /\ name \in NameChoices /\ ScopesLeft
       \/ pc[t] = "fn_start" /\ name = FnName
    /\ LET s == Len(scopes) + 1
       IN  /\ scopes' = EnterTags(ctxEnter(scopes, EnterParent(t)), s, name)
           /\ ops' = Append(ops, NewOp(s))
           /\ cur' = [cur EXCEPT ![t] = s]
    /\ hist' = Append(hist, [NewHist(t, "enter", 0, name) EXCEPT
                   !.amb = cur[t],
                   !.late = /\ SpawnOf(t) # 0
                            /\ spawns[SpawnOf(t)].by # 0
                            /\ hist[spawns[SpawnOf(t)].by].ret # 0])
    /\ pc' = [pc EXCEPT ![t] = IF pc[t] = "fn_start" THEN "fn_entered" ELSE "idle"]
    /\ UNCHANGED <<reporters, rwWriter, rwReaders, counter, self,
                   reportersCopy, ctxMap, idx, regArg, commits, regReturned, fnErr, spawns, profile>>

\* op.Enter, ops.go:66-68
OpEnter(t, h, name) ==
    /\ pc[t] = "idle"
    /\ Usable(t, h)
    /\ ScopesLeft
    /\ LET s == Len(scopes) + 1
       IN  /\ scopes' = EnterTags(ctxEnter(scopes, ops[h].ctx), s, name)
           /\ ops' = Append(ops, ChildOp(ops[h], s))
           /\ cur' = [cur EXCEPT ![t] = s]
    /\ hist' = Append(hist, NewHist(t, "enter", h, name))
    /\ UNCHANGED <<reporters, rwWriter, rwReaders, counter, pc, self,
                   reportersCopy, ctxMap, idx, regArg, commits, regReturned, fnErr, spawns, profile>>

\* op.Put, ops.go:97-100
Put(t, h, value) ==
    /\ pc[t] = "idle"
    /\ Usable(t, h)
    /\ TotalPuts < PutBudget
    /\ scopes[ops[h].ctx].data["k"] = Absent
    /\ scopes' = ctxPut(scopes, ops[h].ctx, "k", value)
    /\ hist' = [hist EXCEPT ![h].putRets = @ \cup {PutRet(h)}]
    /\ UNCHANGED <<reporters, rwWriter, rwReaders, ops, counter, pc, self,
                   reportersCopy, ctxMap, idx, regArg, commits, cur, regReturned, fnErr, spawns, profile>>

\* op.PutDynamic, ops.go:102-105
PutDynamic(t, h) ==
    /\ pc[t] = "idle"
    /\ Usable(t, h)
    /\ TotalPuts < PutBudget
    /\ scopes[ops[h].ctx].data["t"] = Absent
    /\ LET r == OpPutDynamic(scopes, ops[h].ctx, counter)
       IN  scopes' = r.sc /\ counter' = r.cnt
    /\ hist' = [hist EXCEPT ![h].putRets = @ \cup {PutRet(h)}]
    /\ UNCHANGED <<reporters, rwWriter, rwReaders, ops, pc, self,
                   reportersCopy, ctxMap, idx, regArg, commits, cur, regReturned, fnErr, spawns, profile>>

\* op.FailOnError, ops.go:107-112
FailOnError(t, h, err) ==
    /\ \/ pc[t] = "idle" /\ Usable(t, h) /\ TotalFailCalls < FailBudget
       \/ pc[t] = "fn_entered" /\ h \in FnHandles(t) /\ err = fnErr[t]
    /\ ops' = FailOnErrorAll(ops, h, err)
    /\ hist' = [hist EXCEPT ![h].calls =
                   Append(@, [arg |-> err, ret |-> FailOnErrorRet(ops[h], err)])]
    /\ pc' = [pc EXCEPT ![t] = IF pc[t] = "fn_entered" THEN "fn_failed" ELSE "idle"]
    /\ UNCHANGED <<reporters, rwWriter, rwReaders, scopes, counter, self,
                   reportersCopy, ctxMap, idx, regArg, commits, cur, regReturned, fnErr, spawns, profile>>

\* op.Go, ops.go:70-72: fn is started on goroutine u and Go returns.  The fn
\* is enter(FnName).FailOnError(err).Exit().
OpGo(t, h, u, err) ==
    /\ pc[t] = "idle"
    /\ Usable(t, h)
    /\ Len(spawns) < GoBudget
    /\ ScopesLeft
    /\ u \notin Workers
    /\ pc[u] = "idle"
    /\ pc' = [pc EXCEPT ![u] = "fn_start"]
    /\ cur' = [cur EXCEPT ![u] = GoAmbient(ops[h])]
    /\ fnErr' = [fnErr EXCEPT ![u] = err]
    /\ spawns' = Append(spawns, [by |-> h, scope |-> ops[h].ctx, thread |-> u, err |-> err])
    /\ UNCHANGED <<reporters, rwWriter, rwReaders, ops, scopes, counter, self,
                   reportersCopy, ctxMap, idx, regArg, hist, commits, regReturned, profile>>

\* Go, ops.go:74-77: the free function
Go(t, u, err) ==
    /\ pc[t] = "idle"
    /\ t \in Workers
    /\ Len(spawns) < GoBudget
    /\ ScopesLeft
    /\ u \notin Workers
    /\ pc[u] = "idle"
    /\ pc' = [pc EXCEPT ![u] = "fn_start"]
    /\ cur' = [cur EXCEPT ![u] = StaticGoAmbient(t)]
    /\ fnErr' = [fnErr EXCEPT ![u] = err]
    /\ spawns' = Append(spawns, [by |-> 0, scope |-> cur[t], thread |-> u, err |-> err])
    /\ UNCHANGED <<reporters, rwWriter, rwReaders, ops, scopes, counter, self,
                   reportersCopy, ctxMap, idx, regArg, hist, commits, regReturned, profile>>

\* op.Exit, ops.go:81: reportersMutex.RLock()
ExitRLock(t, h) ==
    /\ \/ pc[t] = "idle" /\ Usable(t, h)
       \/ pc[t] = "fn_failed" /\ h \in FnHandles(t)
    /\ CanRLock(rwWriter, rwReaders)
    /\ rwReaders' = rwReaders \cup {t}
    /\ self' = [self EXCEPT ![t] = h]
    /\ hist' = [hist EXCEPT ![h].exited = TRUE]
    /\ pc' = [pc EXCEPT ![t] = "rlocked"]
    /\ UNCHANGED <<reporters, rwWriter, ops, scopes, counter,
                   reportersCopy, ctxMap, idx, regArg, commits, cur, regReturned, fnErr, spawns, profile>>

\* op.Exit, ops.go:82-85: the copy under the read lock
ExitCopy(t) ==
    /\ pc[t] = "rlocked"
    /\ reportersCopy' = [reportersCopy EXCEPT ![t] = SnapshotCopy(reporters)]
    /\ hist' = [hist EXCEPT ![self[t]].snapLen = Len(commits),
                            ![self[t]].trace = Append(@, "snapshot")]
    /\ pc' = [pc EXCEPT ![t] = "copied"]
    /\ UNCHANGED <<reporters, rwWriter, rwReaders, ops, scopes, counter, self,
                   ctxMap, idx, regArg, commits, cur, regReturned, fnErr, spawns, profile>>

\* op.Exit, ops.go:86: reportersMutex.RUnlock()
ExitRUnlock(t) ==
    /\ pc[t] = "copied"
    /\ rwReaders' = AfterRUnlock(rwReaders, t)
    /\ pc' = [pc EXCEPT ![t] = "unlocked"]
    /\ UNCHANGED <<reporters, rwWriter, ops, scopes, counter, self,
                   reportersCopy, ctxMap, idx, regArg, hist, commits, cur, regReturned, fnErr, spawns, profile>>

\* op.Exit, ops.go:88-89: if len(reportersCopy) > 0 { ctx := o.ctx.AsMap(...)
ExitFlatten(t) ==
    /\ pc[t] = "unlocked"
    /\ LET h == self[t]
           s == FlattenScope(ops[h])
           n == ctxDynCount(scopes, s)
           m == ctxAsMap(scopes, s, ops[h].failure, counter)
       IN  IF ShouldReport(reportersCopy[t])
           THEN /\ ctxMap' = [ctxMap EXCEPT ![t] = m]
                /\ counter' = counter + n
                /\ hist' = [hist EXCEPT ![h].evals = @ + n, ![h].flats = @ + 1,
                                        ![h].trace = Append(@, "flatten"),
                                        ![h].flat = m,
                                        ![h].flatFailure = ops[h].failure,
                                        ![h].own = scopes[ops[h].ctx].data,
                                        ![h].inh = ctxMerged(scopes, scopes[ops[h].ctx].parent)]
                /\ idx' = [idx EXCEPT ![t] = 1]
                /\ pc' = [pc EXCEPT ![t] = IF Len(RangeOver(t)) >= 1 THEN "invoke" ELSE "pop"]
           ELSE /\ pc' = [pc EXCEPT ![t] = "pop"]
                /\ UNCHANGED <<ctxMap, counter, hist, idx>>
    /\ UNCHANGED <<reporters, rwWriter, rwReaders, ops, scopes, self,
                   reportersCopy, regArg, commits, cur, regReturned, fnErr, spawns, profile>>

\* op.Exit, ops.go:90-91: one turn of the loop, the call reporter(o.failure, ctx)
ExitInvoke(t) ==
    /\ pc[t] = "invoke"
    /\ LET h == self[t]
           i == idx[t]
       IN  /\ hist' = [hist EXCEPT ![h].reps = Append(@,
                          [idx |-> i, obs |-> RangeOver(t)[i],
                           failure |-> ops[h].failure, ctx |-> InvokeCtx(t)]),
                                   ![h].trace = Append(@, "invoke")]
           /\ pc' = [pc EXCEPT ![t] = "reporting"]
    /\ UNCHANGED <<reporters, rwWriter, rwReaders, ops, scopes, counter, self,
                   reportersCopy, ctxMap, idx, regArg, commits, cur, regReturned, fnErr, spawns, profile>>

\* op.Exit, ops.go:91-92: the reporter returns and the loop goes on
ReporterReturn(t) ==
    /\ pc[t] = "reporting"
    /\ idx' = [idx EXCEPT ![t] = idx[t] + 1]
    /\ pc' = [pc EXCEPT ![t] = AfterReturn(idx[t], Len(RangeOver(t)))]
    /\ UNCHANGED <<reporters, rwWriter, rwReaders, ops, scopes, counter, self,
                   reportersCopy, ctxMap, regArg, hist, commits, cur, regReturned, fnErr, spawns, profile>>

\* op.Exit, ops.go:91: the reporter panics
ReporterPanic(t) ==
    /\ pc[t] = "reporting"
    /\ CanFault
    /\ hist' = [hist EXCEPT ![self[t]].fault = idx[t]]
    /\ pc' = [pc EXCEPT ![t] = AfterPanic(idx[t], Len(RangeOver(t)))]
    /\ UNCHANGED <<reporters, rwWriter, rwReaders, ops, scopes, counter, self,
                   reportersCopy, ctxMap, idx, regArg, commits, cur, regReturned, fnErr, spawns, profile>>

\* op.Exit, ops.go:94: return &op{ctx: o.ctx.Exit()}
ExitPop(t) ==
    /\ pc[t] = "pop"
    /\ LET h == self[t]
       IN  /\ ops' = Append(ops, ExitOp(ops[h]))
           /\ hist' = Append([hist EXCEPT ![h].ret = Len(ops) + 1,
                                           ![h].lenAtRet = Len(commits),
                                           ![h].trace = Append(@, "pop")],
                             NewHist(t, "exit", h, "none"))
    /\ self' = [self EXCEPT ![t] = 0]
    /\ reportersCopy' = [reportersCopy EXCEPT ![t] = <<>>]
    /\ ctxMap' = [ctxMap EXCEPT ![t] = EmptyMap]
    /\ idx' = [idx EXCEPT ![t] = 0]
    /\ cur' = [cur EXCEPT ![t] = ctxExit(scopes, ops[self[t]].ctx)]
    /\ pc' = [pc EXCEPT ![t] = IF fnErr[t] # "none" THEN "fn_done" ELSE "idle"]
    /\ UNCHANGED <<reporters, rwWriter, rwReaders, scopes, counter, regArg, commits, regReturned, fnErr, spawns, profile>>

Next ==
    \E t \in Threads :
        \/ \E r \in Observers : RegisterLock(t, r)
        \/ RegisterAppend(t)
        \/ RegisterUnlock(t)
        \/ \E name \in NameChoices \cup {FnName} : Enter(t, name)
        \/ \E h \in Handles, u \in Threads, err \in Errors : OpGo(t, h, u, err)
        \/ \E u \in Threads, err \in Errors : Go(t, u, err)
        \/ \E h \in Handles, name \in NameChoices : OpEnter(t, h, name)
        \/ \E h \in Handles, value \in PutValues : Put(t, h, value)
        \/ \E h \in Handles : PutDynamic(t, h)
        \/ \E h \in Handles, err \in Errors \cup {Nil} : FailOnError(t, h, err)
        \/ \E h \in Handles : ExitRLock(t, h)
        \/ ExitCopy(t)
        \/ ExitRUnlock(t)
        \/ ExitFlatten(t)
        \/ ExitInvoke(t)
        \/ ReporterReturn(t)
        \/ ReporterPanic(t)
        \/ ExitPop(t)

Spec == Init /\ [][Next]_vars

\* ================================================================ claims
Reps(h) == hist[h].reps

Calls(h) == hist[h].calls

ExitReturned(h) == hist[h].ret # 0

OnlyNilCalls(h) == \A j \in 1..Len(Calls(h)) : Calls(h)[j].arg = Nil

\* Scope a is scope s or one of its ancestors.
RECURSIVE IsAncestorOrSelf(_, _)
IsAncestorOrSelf(a, s) ==
    IF s = 0 THEN FALSE
    ELSE IF a = s THEN TRUE
    ELSE IsAncestorOrSelf(a, scopes[s].parent)

\* C1 (latest error wins): when the last two FailOnError calls on a handle
\* had non-nil errors e1 then e2, every reporter its Exit invokes is given
\* failure e2, and none is given e1.
C1_LatestErrorWins ==
    \A h \in Handles : \A i \in 1..Len(Reps(h)) :
        LET c == Calls(h)
            n == Len(c)
        IN  (n >= 2 /\ c[n - 1].arg # Nil /\ c[n].arg # Nil) =>
                /\ Reps(h)[i].failure = c[n].arg
                /\ (c[n - 1].arg # c[n].arg => Reps(h)[i].failure # c[n - 1].arg)

\* C1 witness: a handle on which FailOnError(e1), FailOnError(e2) were called
\* has exited and a reporter was given e2.
C1_Witness ==
    \E h \in Handles :
        /\ ExitReturned(h)
        /\ Len(Calls(h)) = 2
        /\ Calls(h)[1].arg = "e1"
        /\ Calls(h)[2].arg = "e2"
        /\ Len(Reps(h)) >= 1
        /\ Reps(h)[1].failure = "e2"

\* C2 (absent-failure success): a handle on which FailOnError was never
\* called, or only with nil, reports an absent failure to every reporter,
\* whatever is latched on other handles.
C2_AbsentFailureSuccess ==
    \A h \in Handles : \A i \in 1..Len(Reps(h)) :
        OnlyNilCalls(h) => Reps(h)[i].failure = Nil

\* C2 witness: a child handle on which only FailOnError(nil) was called has
\* reported an absent failure while the handle it was entered from has a
\* failure latched.
C2_Witness ==
    \E h \in Handles :
        /\ ExitReturned(h)
        /\ Len(Calls(h)) = 1
        /\ OnlyNilCalls(h)
        /\ Len(Reps(h)) >= 1
        /\ Reps(h)[1].failure = Nil
        /\ hist[h].from # 0
        /\ ops[hist[h].from].failure # Nil

\* What one step may do to the latch of handle h.
C3_LatchStep(h) ==
    LET old == ops[h].failure
        new == ops'[h].failure
        called == Len(hist'[h].calls) = Len(hist[h].calls) + 1
        call == hist'[h].calls[Len(hist'[h].calls)]
    IN  /\ (old # Nil => new # Nil)
        /\ (new # old => called /\ call.arg # Nil /\ new = call.arg)
        /\ (called => /\ call.ret = call.arg
                      /\ (call.arg = Nil => new = old)
                      /\ (call.arg # Nil => new = call.arg))

\* C3 (the latch is never cleared): a latched failure stays non-nil; it
\* changes only by a FailOnError call with a non-nil error on the same
\* handle, to that error; FailOnError(nil) leaves it as it was; FailOnError
\* returns its argument; and after FailOnError(e); FailOnError(nil) the Exit
\* reports e.
C3_LatchNeverCleared ==
    /\ [][\A h \in Handles : C3_LatchStep(h)]_vars
    /\ [](\A h \in Handles : \A i \in 1..Len(Reps(h)) :
            LET c == Calls(h)
                n == Len(c)
            IN  (n >= 2 /\ c[n - 1].arg # Nil /\ c[n].arg = Nil) =>
                    Reps(h)[i].failure = c[n - 1].arg)

\* C3 witness: after FailOnError(e1); FailOnError(nil) the handle still holds
\* e1, the second call returned nil, and its Exit reported e1.
C3_Witness ==
    \E h \in Handles :
        /\ Len(Calls(h)) = 2
        /\ Calls(h)[1].arg = "e1"
        /\ Calls(h)[2].arg = Nil
        /\ Calls(h)[2].ret = Nil
        /\ ops[h].failure = "e1"
        /\ Len(Reps(h)) >= 1
        /\ Reps(h)[1].failure = "e1"


\* The reporters whose registration had committed when h's Exit read the
\* registry.
CommittedBefore(h) == SubSeq(commits, 1, hist[h].snapLen)

\* C4 (registry snapshot isolation): an Exit invokes no reporter whose
\* registration committed after the Exit read the registry, and by the time
\* it returns it has invoked every reporter whose registration committed
\* before that read.
C4_SnapshotIsolation ==
    \A h \in Handles :
        /\ \A i \in 1..Len(Reps(h)) : Reps(h)[i].idx <= hist[h].snapLen
        /\ ExitReturned(h) =>
              \A j \in 1..hist[h].snapLen :
                  \E i \in 1..Len(Reps(h)) :
                      Reps(h)[i].idx = j /\ Reps(h)[i].obs = commits[j]

\* C4 witness: O2's registration committed between an Exit's read of the
\* registry and its return; that Exit invoked O1 only, and a later Exit
\* invoked O1 and O2.
C4_Witness ==
    \E h \in Handles, g \in Handles :
        /\ commits = <<"O1", "O2">>
        /\ ExitReturned(h)
        /\ hist[h].snapLen = 1
        /\ hist[h].lenAtRet = 2
        /\ Len(Reps(h)) = 1
        /\ Reps(h)[1].obs = "O1"
        /\ ExitReturned(g)
        /\ hist[g].snapLen = 2
        /\ Len(Reps(g)) = 2
        /\ Reps(g)[2].obs = "O2"

\* C5 (registration order): within one exit event the k-th reporter invoked
\* is the k-th whose registration committed.
C5_RegistrationOrder ==
    \A h \in Handles : \A i \in 1..Len(Reps(h)) :
        /\ i <= Len(commits)
        /\ Reps(h)[i].obs = commits[i]

\* C5 witness: O2 was registered before O1, and an Exit invoked O2, then O1.
C5_Witness ==
    \E h \in Handles :
        /\ commits = <<"O2", "O1">>
        /\ ExitReturned(h)
        /\ Len(Reps(h)) = 2
        /\ Reps(h)[1].obs = "O2"
        /\ Reps(h)[2].obs = "O1"

\* How often x occurs in sequence s.
Count(s, x) == Cardinality({i \in 1..Len(s) : s[i] = x})

\* C6 (exactly once per registry entry): an Exit that has returned invoked
\* each entry of the registry as it read it exactly once, so a reporter
\* registered k times was invoked k times.
C6_ExactlyOncePerEntry ==
    \A h \in Handles :
        ExitReturned(h) =>
            /\ \A j \in 1..hist[h].snapLen :
                  Cardinality({i \in 1..Len(Reps(h)) : Reps(h)[i].idx = j}) = 1
            /\ \A o \in Observers :
                  Cardinality({i \in 1..Len(Reps(h)) : Reps(h)[i].obs = o})
                      = Count(CommittedBefore(h), o)

\* C6 witness: O1 was registered twice and an Exit invoked it twice.
C6_Witness ==
    \E h \in Handles :
        /\ ExitReturned(h)
        /\ CommittedBefore(h) = <<"O1", "O1">>
        /\ Len(Reps(h)) = 2
        /\ Reps(h)[1].obs = "O1"
        /\ Reps(h)[2].obs = "O1"


\* C7 (no-observer no-op): an Exit that read an empty registry flattens
\* nothing, calls no value function and invokes nothing, and still returns
\* a handle for the parent scope, with no failure latched until FailOnError
\* is called on that handle.
C7_NoObserverNoOp ==
    \A h \in Handles :
        hist[h].snapLen = 0 =>
            /\ hist[h].flats = 0
            /\ hist[h].evals = 0
            /\ Reps(h) = <<>>
            /\ ExitReturned(h) =>
                  /\ ops[hist[h].ret].ctx = scopes[ops[h].ctx].parent
                  /\ Calls(hist[h].ret) = <<>> => ops[hist[h].ret].failure = Nil

\* C7 witness: with no reporter registered a child handle whose chain holds
\* a dynamic tag has exited; the value function was never called and the
\* handle returned wraps the parent scope.
C7_Witness ==
    \E h \in Handles :
        /\ ExitReturned(h)
        /\ hist[h].snapLen = 0
        /\ ctxDynCount(scopes, ops[h].ctx) = 1
        /\ counter = 0
        /\ scopes[ops[h].ctx].parent # 0
        /\ ops[hist[h].ret].ctx = scopes[ops[h].ctx].parent

\* The handle that Enter or op.Enter returned for scope s.
EnteredAs(s) == CHOOSE g \in Handles : hist[g].kind = "enter" /\ ops[g].ctx = s

\* The outermost scope of the chain of scope s.
RECURSIVE RootScope(_)
RootScope(s) == IF scopes[s].parent = 0 THEN s ELSE RootScope(scopes[s].parent)

\* C8 (root_op stability): what a handle obtained from Enter or op.Enter
\* reports has op = the name it was entered with and root_op = the name the
\* outermost handle of its chain was entered with.
C8_RootOpStability ==
    \A h \in Handles :
        hist[h].kind = "enter" =>
            \A i \in 1..Len(Reps(h)) :
                /\ Reps(h)[i].ctx["op"] = hist[h].name
                /\ Reps(h)[i].ctx["root_op"] = hist[EnteredAs(RootScope(ops[h].ctx))].name

\* C8 witness: Enter("A") then .Enter("B"); the B handle has reported
\* op = "B" and root_op = "A".
C8_Witness ==
    \E h \in Handles :
        /\ hist[h].kind = "enter"
        /\ hist[h].name = "B"
        /\ hist[h].from # 0
        /\ hist[hist[h].from].name = "A"
        /\ Len(Reps(h)) >= 1
        /\ Reps(h)[1].ctx["op"] = "B"
        /\ Reps(h)[1].ctx["root_op"] = "A"

\* A step in which the Exit of handle h returns.
C9_Returns(h) == hist[h].ret = 0 /\ hist'[h].ret # 0

\* C9 (no automatic failure propagation): the step in which an Exit
\* returns changes the latched failure of no handle and the handle it
\* returns has none; and a handle returned by Exit on which no non-nil
\* FailOnError was called reports an absent failure.
C9_NoFailurePropagation ==
    /\ [][\A h \in Handles :
            C9_Returns(h) =>
                /\ \A g \in Handles : ops'[g].failure = ops[g].failure
                /\ ops'[hist'[h].ret].failure = Nil]_vars
    /\ [](\A g \in Handles :
            (hist[g].kind = "exit" /\ OnlyNilCalls(g)) =>
                /\ ops[g].failure = Nil
                /\ \A i \in 1..Len(Reps(g)) : Reps(g)[i].failure = Nil)

\* C9 witness: a child with a latched failure has exited and reported it;
\* the handle its Exit returned has exited in turn and reported an absent
\* failure.
C9_Witness ==
    \E h \in Handles :
        /\ ExitReturned(h)
        /\ ops[h].failure # Nil
        /\ Len(Reps(h)) >= 1
        /\ Reps(h)[1].failure = ops[h].failure
        /\ LET g == hist[h].ret
           IN  /\ ExitReturned(g)
               /\ Calls(g) = <<>>
               /\ Len(Reps(g)) >= 1
               /\ Reps(g)[1].failure = Nil

\* The dynamic tags evaluated by all flattens so far.
RECURSIVE EvalsUpTo(_)
EvalsUpTo(n) == IF n = 0 THEN 0 ELSE hist[n].evals + EvalsUpTo(n - 1)

\* The report of h's Exit carries a value for key.
Reported(h, key) == Len(Reps(h)) >= 1 /\ Reps(h)[1].ctx[key] # Absent

\* C10 (dynamic re-evaluation): the value function is called by flattens
\* only, never when the tag is attached; an Exit that reports the dynamic
\* tag has called it once itself; and two exits never report the same value
\* for it.
C10_DynamicReevaluation ==
    /\ counter = EvalsUpTo(Len(hist))
    /\ \A h \in Handles : Reported(h, "t") => hist[h].evals = 1
    /\ \A h \in Handles, g \in Handles :
          (h # g /\ Reported(h, "t") /\ Reported(g, "t"))
              => Reps(h)[1].ctx["t"] # Reps(g)[1].ctx["t"]

\* C10 witness: a child handle and then the handle for the parent scope,
\* which holds the dynamic tag, have exited; the first reported 1 and the
\* second 2.
C10_Witness ==
    \E h \in Handles :
        /\ ExitReturned(h)
        /\ hist[h].kind = "enter"
        /\ scopes[ops[h].ctx].data["t"] = Absent
        /\ Len(Reps(h)) >= 1
        /\ Reps(h)[1].ctx["t"] = "1"
        /\ LET g == hist[h].ret
           IN  /\ ExitReturned(g)
               /\ scopes[ops[g].ctx].data["t"] = Dyn
               /\ Len(Reps(g)) >= 1
               /\ Reps(g)[1].ctx["t"] = "2"


\* Sequence a is an initial part of sequence b.
IsPrefix(a, b) == Len(a) <= Len(b) /\ SubSeq(b, 1, Len(a)) = a

\* A step either leaves the registry alone or is the append of a
\* RegisterReporter, which adds its argument at the end.
C17_RegistryStep ==
    /\ IsPrefix(reporters, reporters')
    /\ reporters' # reporters =>
           \E t \in Threads :
               /\ pc[t] = "reg_locked"
               /\ pc'[t] = "reg_appended"
               /\ reporters' = Append(reporters, regArg[t])

\* The registry holds one entry per RegisterReporter call that has returned
\* or has done its append, in the order of the appends.
C17_Counts ==
    /\ Len(reporters) = regReturned + Cardinality({t \in Threads : pc[t] = "reg_appended"})
    /\ InRegister = {} => Len(reporters) = regReturned
    /\ reporters = commits

\* C17: the registry is empty at first and append-only: every later value
\* extends every earlier one, only RegisterReporter's append changes it (no
\* step of Exit does), and after N RegisterReporter calls have returned it
\* holds exactly N entries.
C17_AppendOnly ==
    /\ reporters = <<>>
    /\ []C17_Counts
    /\ [][C17_RegistryStep]_vars

\* Two registrations have returned, with an Exit that reported to the first
\* reporter completed in between.
C17_Witness ==
    /\ regReturned = 2
    /\ Len(reporters) = 2
    /\ \E h \in Handles :
           /\ ExitReturned(h)
           /\ hist[h].lenAtRet = 1
           /\ Len(Reps(h)) = 1


\* The steps of an Exit that copied n reporters, in the order of the code.
ExpectedTrace(n) ==
    IF n = 0 THEN <<"snapshot", "pop">>
    ELSE <<"snapshot", "flatten">> \o [i \in 1..n |-> "invoke"] \o <<"pop">>

\* C18 (report, then pop): the steps of an Exit come in the order snapshot,
\* flatten, invocations, scope pop; the pop and the return of the parent
\* handle come after every invocation; and the map the reporters are given
\* holds the tags of the exiting handle's own scope level, its values
\* overriding those of the ancestors.
C18_ReportThenPop ==
    \A h \in Handles :
        LET tr == hist[h].trace
            n == hist[h].snapLen
        IN  /\ n = -1 => tr = <<>>
            /\ n >= 0 => IsPrefix(tr, ExpectedTrace(n))
            /\ ExitReturned(h) <=> (n >= 0 /\ tr = ExpectedTrace(n))
            /\ ExitReturned(h) => Len(Reps(h)) = n
            /\ ~ExitReturned(h) /\ hist[h].exited =>
                   /\ pc[hist[h].owner] \in ExitPcs \cup {"reg_locked", "reg_appended", "panicked"}
                   /\ self[hist[h].owner] = h
            /\ \A i \in 1..Len(Reps(h)) : \A k \in Keys :
                   LET own == hist[h].own[k]
                       got == Reps(h)[i].ctx[k]
                   IN  /\ own \notin {Absent, Dyn} => got = own
                       /\ own = Dyn => got \notin {Absent, Dyn}

\* A child scope with a tag of its own, below a parent entered under another
\* name, has exited; the reporter was given the child's "op" and tag.
C18_Witness ==
    \E h \in Handles :
        /\ ExitReturned(h)
        /\ Len(Reps(h)) >= 1
        /\ scopes[ops[h].ctx].parent # 0
        /\ scopes[scopes[ops[h].ctx].parent].data["op"] = "A"
        /\ Reps(h)[1].ctx["op"] = "B"
        /\ Reps(h)[1].ctx["root_op"] = "A"
        /\ Reps(h)[1].ctx["k"] = "v1"
        /\ hist[h].own["k"] = "v1"
        /\ hist[h].trace = <<"snapshot", "flatten", "invoke", "pop">>


\* C19 (one flatten per exit event): an Exit that copied at least one
\* reporter flattens once, so the dynamic tag's value function runs once for
\* the event however many reporters there are; an Exit that copied none does
\* not flatten; and every reporter of the event is given the map made by that
\* flatten and the failure latched on the handle when it was made.
C19_OneFlattenPerExit ==
    \A h \in Handles :
        /\ hist[h].flats <= 1
        /\ hist[h].flats = 1 <=> hist[h].snapLen >= 1 /\ Len(hist[h].trace) >= 2
        /\ hist[h].evals = IF hist[h].flat["t"] # Absent THEN 1 ELSE 0
        /\ Len(Reps(h)) >= 1 => hist[h].flats = 1
        /\ \A i \in 1..Len(Reps(h)) :
               /\ Reps(h)[i].ctx = hist[h].flat
               /\ Reps(h)[i].failure = hist[h].flatFailure
               /\ Reps(h)[i].ctx["failure"] =
                      (IF Reps(h)[i].failure = Nil THEN Absent ELSE Reps(h)[i].failure)
               /\ \A j \in 1..Len(Reps(h)) :
                      /\ Reps(h)[j].ctx = Reps(h)[i].ctx
                      /\ Reps(h)[j].failure = Reps(h)[i].failure

\* A handle with a dynamic tag and a latched failure has exited with two
\* reporters registered: one evaluation, the same map and failure for both.
C19_Witness ==
    \E h \in Handles :
        /\ ExitReturned(h)
        /\ Len(Reps(h)) = 2
        /\ Reps(h)[1].obs # Reps(h)[2].obs
        /\ hist[h].evals = 1
        /\ Reps(h)[1].ctx["t"] \notin {Absent, Dyn}
        /\ Reps(h)[2].ctx["t"] = Reps(h)[1].ctx["t"]
        /\ Reps(h)[1].failure = "e1"
        /\ Reps(h)[2].failure = "e1"


\* The failure a handle holds after the FailOnError calls c: the last non-nil
\* argument, nil if there is none.
Latched(c) ==
    LET nz == {j \in 1..Len(c) : c[j].arg # Nil}
    IN  IF nz = {} THEN Nil
        ELSE c[CHOOSE j \in nz : \A k \in nz : k <= j].arg

\* Handles g and p are two op structs on the same scope.
SameScope(g, p) == g # p /\ ops[g].ctx # 0 /\ ops[g].ctx = ops[p].ctx

\* What is latched on every handle depends on the FailOnError calls made on
\* that handle alone, also when another handle wraps the same scope.
C20_OwnLatch ==
    \A g \in Handles :
        /\ ops[g].failure = Latched(Calls(g))
        /\ \A i \in 1..Len(Reps(g)) : Reps(g)[i].failure = Latched(Calls(g))
        /\ hist[g].putRets \subseteq {g}
        /\ \A p \in Handles :
               SameScope(g, p) /\ Calls(g) = <<>> =>
                   /\ ops[g].failure = Nil
                   /\ \A i \in 1..Len(Reps(g)) : Reps(g)[i].failure = Nil

\* A step that is not a FailOnError call on handle h (a Put, PutDynamic,
\* Enter, Exit or registration) leaves the latch of h as it was.
C20_Frame(h) ==
    Len(hist'[h].calls) = Len(hist[h].calls) => ops'[h].failure = ops[h].failure

\* C20 (latches belong to handle objects): the handle returned by a child's
\* Exit and the parent handle wrap the same scope with independent latches,
\* so a failure latched on one is never reported by the Exit of the other;
\* Put, PutDynamic and Enter never change a latched failure, and Put and
\* PutDynamic return the handle they were called on.
C20_LatchPerHandle ==
    /\ []C20_OwnLatch
    /\ [][\A h \in Handles : C20_Frame(h)]_vars

\* The parent handle latched e1 and the handle returned by its child's Exit
\* latched e2; both exited, each reporting its own failure.
C20_Witness ==
    \E p \in Handles, c \in Handles :
        /\ hist[c].kind = "enter"
        /\ hist[c].from = p
        /\ ExitReturned(c)
        /\ LET g == hist[c].ret
           IN  /\ ops[g].ctx = ops[p].ctx
               /\ ExitReturned(p)
               /\ ExitReturned(g)
               /\ Len(Reps(p)) = 1
               /\ Len(Reps(g)) = 1
               /\ Reps(p)[1].failure = "e1"
               /\ Reps(g)[1].failure = "e2"


\* The state of an Exit whose reporter at position hist[h].fault panicked.
C14_Faulted(h) ==
    LET i == hist[h].fault
        t == hist[h].owner
    IN  /\ pc[t] = "panicked"
        /\ self[t] = h
        /\ i \in 1..hist[h].snapLen
        /\ Len(Reps(h)) = i
        /\ \A j \in 1..i : Reps(h)[j].idx = j /\ Reps(h)[j].obs = commits[j]
        /\ hist[h].trace = <<"snapshot", "flatten">> \o [j \in 1..i |-> "invoke"]
        /\ ~ExitReturned(h)
        /\ \A g \in Handles : ~(hist[g].kind = "exit" /\ hist[g].from = h)

\* A goroutine unwinding from a reporter's panic: its Exit does nothing more.
C14_Unwinding(t) ==
    (pc[t] = "panicked" \/ pc'[t] = "panicked") =>
        /\ pc'[t] = "panicked"
        /\ cur'[t] = cur[t]
        /\ self'[t] = self[t]
        /\ ops'[self[t]] = ops[self[t]]
        /\ hist'[self[t]].reps = hist[self[t]].reps
        /\ hist'[self[t]].ret = 0

\* C14 (a reporter's panic aborts the rest of Exit): when the reporter at
\* position i panics, the panic reaches the caller of Exit, no reporter after
\* i is invoked, the scope is not popped and no parent handle is returned;
\* the reporters up to i were each invoked once, in order.
C14_FaultAborts ==
    /\ [](\A h \in Handles : hist[h].fault # 0 => C14_Faulted(h))
    /\ [][\A t \in Threads : C14_Unwinding(t)]_vars

\* The first of two reporters panicked: the second was never invoked and the
\* scope of the handle is still the goroutine's current scope.
C14_Witness ==
    \E h \in Handles :
        /\ hist[h].fault = 1
        /\ hist[h].snapLen = 2
        /\ Len(Reps(h)) = 1
        /\ pc[hist[h].owner] = "panicked"
        /\ cur[hist[h].owner] = ops[h].ctx
        /\ Len(ops) = 1

\* Goroutine t is in an Exit that has released the read lock.
InvocationPhase(t) == self[t] # 0 /\ pc[t] \notin {"rlocked", "copied"}

\* C15 (reporters run with the registry lock released): an Exit that is past
\* its copy section holds neither the read nor the write lock, so the read
\* lock is held only inside copy sections; a RegisterReporter called by a
\* reporter during the Exit can take the write lock unless another goroutine
\* holds the mutex, and the write lock is held only inside RegisterReporter.
C15_ReportersRunUnlocked ==
    /\ \A t \in Threads :
           /\ InvocationPhase(t) => t \notin rwReaders
           /\ pc[t] \in {"unlocked", "invoke", "reporting", "pop", "panicked"} =>
                  rwWriter # t
           /\ (/\ pc[t] = "reporting"
               /\ \A u \in Threads \ {t} : u \notin rwReaders /\ rwWriter # u)
                  => CanLock(rwWriter, rwReaders)
    /\ rwReaders = {t \in Threads : pc[t] \in {"rlocked", "copied"}}
    /\ rwWriter # NoThread => rwWriter \in InRegister
    /\ (\A t \in Threads : pc[t] \notin {"rlocked", "copied"} \cup {"reg_locked", "reg_appended"})
           => CanLock(rwWriter, rwReaders)

\* A reporter registered another reporter while its Exit was running, and the
\* Exit returned; the new reporter was not part of that exit event.
C15_Witness ==
    \E h \in Handles :
        /\ ExitReturned(h)
        /\ hist[h].obsRegs = 1
        /\ Len(Reps(h)) = 1
        /\ Len(reporters) = 2
        /\ rwWriter = NoThread


\* The handles entered by the fn of a goroutine that Go started.
FnOps == {x \in Handles : hist[x].kind = "enter" /\ hist[x].owner \notin Workers}

\* C11 (isolation of a spawned flow): the Exit of the handle X that fn
\* entered reports fn's error and op = X, whatever the launching goroutine
\* does meanwhile; the Exit of every handle of the launching goroutine
\* reports the failure latched on that handle (absent if none) and the op of
\* its own scope, never X's.
C11_SpawnIsolation ==
    /\ \A x \in FnOps :
           LET k == SpawnOf(hist[x].owner)
           IN  /\ k # 0
               /\ hist[x].name = FnName
               /\ \A j \in 1..Len(Calls(x)) : Calls(x)[j].arg = spawns[k].err
               /\ ExitReturned(x) => Len(Calls(x)) = 1
               /\ \A i \in 1..Len(Reps(x)) :
                      /\ Reps(x)[i].failure = spawns[k].err
                      /\ Reps(x)[i].ctx["failure"] = spawns[k].err
                      /\ Reps(x)[i].ctx["op"] = FnName
    /\ \A h \in Handles \ FnOps :
           \A i \in 1..Len(Reps(h)) :
               /\ Reps(h)[i].failure = Latched(Calls(h))
               /\ Calls(h) = <<>> => Reps(h)[i].ctx["failure"] = Absent
               /\ Reps(h)[i].ctx["op"] = scopes[ops[h].ctx].data["op"]
               /\ Reps(h)[i].ctx["op"] # FnName

\* Handle p latched e1 and started fn with e2; fn's handle reported e2 as X,
\* and p, exiting after fn had latched its error, reported e1 as A.
C11_Witness ==
    \E x \in FnOps, p \in Handles \ FnOps :
        /\ SpawnOf(hist[x].owner) # 0
        /\ spawns[SpawnOf(hist[x].owner)].by = p
        /\ spawns[SpawnOf(hist[x].owner)].err = "e2"
        /\ ExitReturned(x)
        /\ ExitReturned(p)
        /\ Len(Reps(x)) = 1
        /\ Reps(x)[1].failure = "e2"
        /\ Reps(x)[1].ctx["op"] = FnName
        /\ Len(Reps(p)) = 1
        /\ Reps(p)[1].failure = "e1"
        /\ Reps(p)[1].ctx["op"] = "A"
        /\ hist[p].ret > x

\* The goroutines inside the copy section of an Exit.
CopySection == {t \in Threads : pc[t] \in {"rlocked", "copied"}}

\* No registration is inside its critical section together with a copy
\* section or another registration, and a copy made is the registry as it
\* stood when the copy was taken.
C16_Excluded ==
    /\ InRegister # {} => CopySection = {}
    /\ Cardinality(InRegister) <= 1
    /\ \A t \in Threads :
           /\ pc[t] = "copied" => reportersCopy[t] = reporters
           /\ self[t] # 0 /\ pc[t] # "rlocked" =>
                  reportersCopy[t] = SubSeq(commits, 1, hist[self[t]].snapLen)

\* The registry does not change while any Exit is in its copy section.
C16_StableWhileCopying == CopySection # {} => reporters' = reporters

\* C16 (reader/writer exclusion on the registry): a RegisterReporter is never
\* inside its append section while an Exit is in its copy section or another
\* RegisterReporter is in its own; several Exits may copy at the same time;
\* and every snapshot is the registry at one instant.
C16_ReaderWriterExclusion ==
    /\ []C16_Excluded
    /\ [][C16_StableWhileCopying]_vars

\* Two Exits are in their copy sections at the same time, one of them having
\* made its copy of a registry with a reporter.
C16_Witness ==
    /\ Cardinality(CopySection) = 2
    /\ Len(reporters) = 1
    /\ \E t \in Threads : pc[t] = "copied" /\ reportersCopy[t] = reporters
    /\ \E t \in Threads : pc[t] = "rlocked"


\* The handles the free function Enter returned.
StaticEnters == {h \in Handles : hist[h].kind = "enter" /\ hist[h].from = 0}

\* C12 as stated: every scope the free function Enter pushes is a root, and
\* its Exit reports root_op equal to its own name.
C12_StaticEnterIsRoot ==
    \A h \in StaticEnters :
        /\ scopes[ops[h].ctx].parent = 0
        /\ \A i \in 1..Len(Reps(h)) : Reps(h)[i].ctx["root_op"] = hist[h].name

\* C12 amended: the free function Enter pushes its scope below the scope
\* that is current in the calling goroutine (hist[h].amb).  Only when the
\* goroutine has no current scope is the new scope a root; its Exit then
\* reports root_op equal to its own name and no tag but its own.  Otherwise
\* the Exit reports the root_op of the chain it was pushed on and the tags
\* of that chain it does not override.
C12_StaticEnterBelowCurrent ==
    \A h \in StaticEnters :
        LET a == hist[h].amb
        IN  /\ scopes[ops[h].ctx].parent = a
            /\ \A i \in 1..Len(Reps(h)) :
                   LET m == Reps(h)[i].ctx
                   IN  /\ m["op"] = hist[h].name
                       /\ a = 0 =>
                              /\ m["root_op"] = hist[h].name
                              /\ \A k \in {"k", "t"} :
                                     m[k] # Absent => hist[h].own[k] # Absent
                       /\ a # 0 =>
                              /\ m["root_op"] = hist[h].inh["root_op"]
                              /\ m["root_op"] = scopes[RootScope(a)].data["op"]
                              /\ hist[h].own["k"] = Absent => m["k"] = hist[h].inh["k"]

\* The free function Enter was called as B in a goroutine whose current scope
\* was A with a tag; the Exit of B reported root_op = A and A's tag.
C12_Witness ==
    \E h \in StaticEnters :
        /\ hist[h].owner \in Workers
        /\ hist[h].amb # 0
        /\ ExitReturned(h)
        /\ Len(Reps(h)) = 1
        /\ hist[h].name = "B"
        /\ Reps(h)[1].ctx["op"] = "B"
        /\ Reps(h)[1].ctx["root_op"] = "A"
        /\ Reps(h)[1].ctx["k"] = "v1"
        /\ hist[h].own["k"] = Absent

\* A step in which Go starts a goroutine: nothing of fn has run and no other
\* goroutine has moved, the caller is where it was.
C13_GoStep ==
    \A u \in Threads :
        pc[u] # "fn_start" /\ pc'[u] = "fn_start" =>
            /\ \A t \in Threads \ {u} : pc'[t] = pc[t]
            /\ ops' = ops
            /\ scopes' = scopes
            /\ hist' = hist
            /\ Len(spawns') = Len(spawns) + 1

\* The scope fn entered lies below the scope Go was called with, and its
\* Exit reports that scope's root_op and tags.
C13_Inherits ==
    \A x \in FnOps :
        LET k == SpawnOf(hist[x].owner)
            a == spawns[k].scope
        IN  /\ k # 0
            /\ scopes[ops[x].ctx].parent = a
            /\ a # 0 => IsAncestorOrSelf(a, ops[x].ctx)
            /\ \A i \in 1..Len(Reps(x)) :
                   LET m == Reps(x)[i].ctx
                   IN  /\ a # 0 => /\ m["root_op"] = scopes[RootScope(a)].data["op"]
                                   /\ m["root_op"] # FnName
                                   /\ m["k"] = hist[x].inh["k"]
                                   /\ m["k"] \in {Absent, ctxMerged(scopes, a)["k"]}
                       /\ a = 0 => m["root_op"] = FnName

\* C13 (Go hands down the ambient scope): Go returns to its caller without
\* running fn, and the scope fn enters is a descendant of the scope Go was
\* called with, so its report carries that scope's tags and root_op, also
\* when the launching handle has exited before fn runs.
C13_AmbientInheritance ==
    /\ []C13_Inherits
    /\ [][C13_GoStep]_vars

\* Handle p put a tag, called Go and exited before fn entered its scope; fn's
\* Exit still reported p's root_op and tag.
C13_Witness ==
    \E x \in FnOps :
        /\ hist[x].late
        /\ spawns[SpawnOf(hist[x].owner)].by # 0
        /\ ExitReturned(x)
        /\ Len(Reps(x)) = 1
        /\ Reps(x)[1].ctx["op"] = FnName
        /\ Reps(x)[1].ctx["root_op"] = "A"
        /\ Reps(x)[1].ctx["k"] = "v1"

====
